---- MODULE Spec2Model ----
(***************************************************************************)
(* Model of jj_extensions: the stack synchroniser of sync.py (branch       *)
(* ordering, review-request reconciliation, marker-section merge) and the  *)
(* exit-code handling of cli.py.                                           *)
(*                                                                         *)
(* Text is modelled as a sequence of tokens whose concatenation is the     *)
(* Python string: a marker is one token, a whitespace character is one     *)
(* token, any other run of text is one token.  No token is empty and the   *)
(* characters "<" and ">" occur only as the first and the last character   *)
(* of a token, so a marker occurs in the string exactly where its token    *)
(* occurs in the sequence.                                                 *)
(***************************************************************************)
EXTENDS Naturals, Integers, Sequences, FiniteSets, TLC

VARIABLES host, calls, run, fn

vars == <<host, calls, run, fn>>

----------------------------------------------------------------------------
(* Bounds *)

MaxBodyLen == 4

----------------------------------------------------------------------------
(* Text primitives (Python str methods on token sequences) *)

\* cli.py:39 / sync.py:226: the default marker key
DefaultMarkerKey == "jj-stack-sync"

\* a second key, as given with --marker
OtherMarkerKey == "stack"

Keys == {DefaultMarkerKey, OtherMarkerKey}

\* the pointer glyph of sync.py:202 (code point U+1F449)
Glyph == "U+1F449"

NL == "\n"

\* the characters str.strip, lstrip, rstrip and split remove (str.isspace);
\* one that cannot be written here is the token of its code point, like Glyph
Whitespace ==
  {" ", NL, "\t", "\r", "\f", "U+000B", "U+001C", "U+001D", "U+001E", "U+001F",
   "U+0085", "U+00A0", "U+1680", "U+2000", "U+2001", "U+2002", "U+2003",
   "U+2004", "U+2005", "U+2006", "U+2007", "U+2008", "U+2009", "U+200A",
   "U+2028", "U+2029", "U+202F", "U+205F", "U+3000"}

IsSpace(t) == t \in Whitespace

RECURSIVE lstrip(_)
lstrip(s) == IF s # <<>> /\ IsSpace(Head(s)) THEN lstrip(Tail(s)) ELSE s

RECURSIVE rstrip(_)
rstrip(s) ==
  IF s # <<>> /\ IsSpace(s[Len(s)]) THEN rstrip(SubSeq(s, 1, Len(s) - 1)) ELSE s

strip(s) == lstrip(rstrip(s))

\* Python "t in s" for a marker t
Contains(s, t) == \E i \in 1..Len(s) : s[i] = t

\* index of the first occurrence of t in s (0 when absent)
Find(s, t) ==
  IF Contains(s, t) THEN CHOOSE i \in 1..Len(s) : s[i] = t /\ \A j \in 1..(i - 1) : s[j] # t
  ELSE 0

\* s.split(t, 1)[0]
SplitFirstLeft(s, t) == SubSeq(s, 1, Find(s, t) - 1)

\* s.split(t, 1)[1]
SplitFirstRight(s, t) == SubSeq(s, Find(s, t) + 1, Len(s))

RECURSIVE Join(_, _)
\* sep.join(parts), parts a sequence of token sequences
Join(parts, sep) ==
  IF parts = <<>> THEN <<>>
  ELSE IF Len(parts) = 1 THEN parts[1]
  ELSE parts[1] \o sep \o Join(Tail(parts), sep)

StartMarker(key) == "<!-- " \o key \o ":start -->"

EndMarker(key) == "<!-- " \o key \o ":end -->"

----------------------------------------------------------------------------
(* Section renderer and merger *)

\* StackLine marking the line after the current one
StackLine_MarksNext(i, num, current_index) ==
  <<"-", " ">> \o (IF i = current_index + 1 THEN <<Glyph, " ">> ELSE <<>>)
               \o <<"#", ToString(num)>>

\* one line of the section; i is the 0-based position
StackLine(i, num, current_index) ==
  <<"-", " ">> \o (IF i = current_index THEN <<Glyph, " ">> ELSE <<>>)
               \o <<"#", ToString(num)>>

STACK_SECTION_TEMPLATE(key, lines) ==
  <<StartMarker(key), NL>> \o lines \o <<NL, EndMarker(key)>>

\* render_stack_section listing the numbers last to first
render_stack_section_LastFirst(marker_key, pr_numbers_in_order, current_index) ==
  LET n == Len(pr_numbers_in_order)
      lines == [i \in 1..n |-> StackLine(i - 1, pr_numbers_in_order[n + 1 - i], current_index)]
  IN STACK_SECTION_TEMPLATE(marker_key, Join(lines, <<NL>>))

render_stack_section(marker_key, pr_numbers_in_order, current_index) ==
  LET lines == [i \in 1..Len(pr_numbers_in_order) |->
                  StackLine(i - 1, pr_numbers_in_order[i], current_index)]
  IN STACK_SECTION_TEMPLATE(marker_key, Join(lines, <<NL>>))

upsert_marker_section(existing_body, marker_key, new_section) ==
  LET start == StartMarker(marker_key)
      end == EndMarker(marker_key)
  IN IF Contains(existing_body, start) /\ Contains(existing_body, end)
     THEN LET before == rstrip(SplitFirstLeft(existing_body, start))
              after == lstrip(SplitFirstRight(existing_body, end))
              combined == before \o <<NL, NL>> \o new_section
                          \o (IF after # <<>> THEN <<NL, NL>> \o after ELSE <<>>)
          IN strip(combined)
     ELSE IF strip(existing_body) # <<>>
          THEN strip(new_section \o <<NL, NL>> \o strip(existing_body))
          ELSE new_section

----------------------------------------------------------------------------
(* Inputs of the merge specification *)

RECURSIVE SeqsUpTo(_, _)
\* all sequences over S of length at most n
SeqsUpTo(S, n) ==
  IF n = 0 THEN {<<>>}
  ELSE LET shorter == SeqsUpTo(S, n - 1)
       IN shorter \cup {Append(s, x) : s \in {t \in shorter : Len(t) = n - 1}, x \in S}

BodyAlphabet ==
  {StartMarker(k) : k \in Keys} \cup {EndMarker(k) : k \in Keys} \cup {NL, "\t", "x"}

Bodies == SeqsUpTo(BodyAlphabet, MaxBodyLen)

\* the (numbers, current index) pairs the sections are rendered from
SectionInputs == {<<<<>>, 0>>, <<<<7>>, 0>>, <<<<7, 12>>, 1>>, <<<<7, 12>>, 2>>}

\* a body and a section whose markers are written without the spaces of
\* lines 208-209, next to a line of text each
UnspacedBody ==
  <<"Fixes #12", NL, "<!--jj-stack-sync:start-->", NL, "stale", NL,
    "<!--jj-stack-sync:end-->", NL, "Thanks">>

UnspacedSection ==
  <<"<!--jj-stack-sync:start-->", NL, "fresh", NL, "<!--jj-stack-sync:end-->">>

NoFn == [stage |-> "none"]

IdleRun == [pc |-> "idle"]

UpsertInit ==
  /\ host = <<>>
  /\ calls = <<>>
  /\ run = IdleRun
  /\ \/ \E b \in Bodies, k \in Keys, si \in SectionInputs :
          fn = [stage |-> "input", body |-> b, key |-> k, nums |-> si[1], cur |-> si[2],
                section |-> <<>>, once |-> <<>>, twice |-> <<>>]
     \/ \* a section handed to upsert_marker_section as it is
        fn = [stage |-> "given", body |-> UnspacedBody, key |-> DefaultMarkerKey,
              nums |-> <<>>, cur |-> 0, section |-> UnspacedSection,
              once |-> <<>>, twice |-> <<>>]

Render ==
  /\ fn.stage = "input"
  /\ fn' = [fn EXCEPT !.stage = "rendered",
                      !.section = render_stack_section(fn.key, fn.nums, fn.cur)]
  /\ UNCHANGED <<host, calls, run>>

UpsertOnce ==
  /\ fn.stage = "rendered"
  /\ fn' = [fn EXCEPT !.stage = "once",
                      !.once = upsert_marker_section(fn.body, fn.key, fn.section)]
  /\ UNCHANGED <<host, calls, run>>

UpsertTwice ==
  /\ fn.stage = "once"
  /\ fn' = [fn EXCEPT !.stage = "twice",
                      !.twice = upsert_marker_section(fn.once, fn.key, fn.section)]
  /\ UNCHANGED <<host, calls, run>>

\* the merge of a section that was not rendered here
UpsertGiven ==
  /\ fn.stage = "given"
  /\ fn' = [fn EXCEPT !.stage = "given_once",
                      !.once = upsert_marker_section(fn.body, fn.key, fn.section)]
  /\ UNCHANGED <<host, calls, run>>

UpsertNext == Render \/ UpsertOnce \/ UpsertTwice \/ UpsertGiven

SpecUpsert == UpsertInit /\ [][UpsertNext]_vars

----------------------------------------------------------------------------
(* Branch lister: sync.py list_branches and _sanitize_branch_name *)

RECURSIVE Concat(_)
\* the string a token sequence stands for
Concat(s) == IF s = <<>> THEN "" ELSE Head(s) \o Concat(Tail(s))

\* the result is <<>> for None and <<name>> for a name
sanitize_branch_name(raw) ==
  LET name == strip(raw)
  IN IF name = <<>> THEN <<>>
     ELSE IF Head(name) = "@" THEN <<>>
     ELSE LET cut == IF name[Len(name)] = ":" THEN SubSeq(name, 1, Len(name) - 1) ELSE name
          IN IF cut = <<>> THEN <<>> ELSE <<Concat(cut)>>

RECURSIVE SanitizedNames(_)
\* the loop of lines 71-74: the names of the lines that have one, in order
SanitizedNames(lines) ==
  IF lines = <<>> THEN <<>>
  ELSE sanitize_branch_name(Head(lines)) \o SanitizedNames(Tail(lines))

\* line.strip().split()[0]: the tokens up to the first whitespace
FirstWord(line) ==
  LET l == strip(line)
      stops == {i \in 1..Len(l) : IsSpace(l[i])}
  IN IF stops = {} THEN l
     ELSE SubSeq(l, 1, (CHOOSE i \in stops : \A j \in stops : i <= j) - 1)

RECURSIVE PlainNames(_)
\* the loop of lines 82-89 over the plain listing
PlainNames(lines) ==
  IF lines = <<>> THEN <<>>
  ELSE (IF strip(Head(lines)) = <<>> THEN <<>>
        ELSE sanitize_branch_name(FirstWord(Head(lines))))
       \o PlainNames(Tail(lines))

----------------------------------------------------------------------------
(* Stack orderer: sync.py sort_branches_as_stack *)

RECURSIVE Dedupe(_, _)
\* lines 100-105: first occurrences, in order
Dedupe(names, seen) ==
  IF names = <<>> THEN <<>>
  ELSE IF Head(names) \in seen THEN Dedupe(Tail(names), seen)
  ELSE <<Head(names)>> \o Dedupe(Tail(names), seen \cup {Head(names)})

Range(s) == {s[i] : i \in 1..Len(s)}

\* run_ok strips the output and line 116 drops the blank lines
NonBlankLines(out) ==
  LET idx == {i \in 1..Len(out) : strip(out[i]) # <<>>}
      first == CHOOSE i \in idx : \A j \in idx : i <= j
      last == CHOOSE i \in idx : \A j \in idx : j <= i
      RECURSIVE Keep(_)
      Keep(i) ==
        IF i > Len(out) THEN <<>>
        ELSE (IF i \in idx
              THEN <<IF i = first /\ i = last THEN strip(out[i])
                     ELSE IF i = first THEN lstrip(out[i])
                     ELSE IF i = last THEN rstrip(out[i])
                     ELSE out[i]>>
              ELSE <<>>) \o Keep(i + 1)
  IN IF idx = {} THEN <<>> ELSE Keep(1)

\* the index of the last " " of the line, 0 when it has none (rsplit fails)
LastSpace(line) ==
  LET sp == {i \in 1..Len(line) : line[i] = " "}
  IN IF sp = {} THEN 0 ELSE CHOOSE i \in sp : \A j \in sp : j <= i

RECURSIVE SplitCommas(_, _)
\* left.split(","), with the piece being read in cur
SplitCommas(left, cur) ==
  IF left = <<>> THEN <<Concat(cur)>>
  ELSE IF Head(left) = "," THEN <<Concat(cur)>> \o SplitCommas(Tail(left), <<>>)
  ELSE SplitCommas(Tail(left), Append(cur, Head(left)))

\* line 121: the non-empty pieces
LineBranches(line) ==
  LET pieces == SplitCommas(SubSeq(line, 1, LastSpace(line) - 1), <<>>)
  IN SelectSeq(pieces, LAMBDA n : n # "")

RECURSIVE CommitBranches(_)
\* lines 117-124: the branch names of each well-formed line, in order
CommitBranches(lines) ==
  IF lines = <<>> THEN <<>>
  ELSE (IF LastSpace(Head(lines)) = 0 THEN <<>> ELSE LineBranches(Head(lines)))
       \o CommitBranches(Tail(lines))

RECURSIVE Emit(_, _, _)
\* lines 125-131: the names of the input on first encounter
Emit(bnames, names, emitted) ==
  IF bnames = <<>> THEN <<>>
  ELSE IF Head(bnames) \in Range(names) /\ Head(bnames) \notin emitted
  THEN <<Head(bnames)>> \o Emit(Tail(bnames), names, emitted \cup {Head(bnames)})
  ELSE Emit(Tail(bnames), names, emitted)

\* sort_branches_as_stack without the dedupe of lines 100-105
sort_branches_as_stack_NoDedupe(branches, out) ==
  LET names == branches
      ordered == Emit(CommitBranches(NonBlankLines(out)), names, {})
  IN IF names = <<>> THEN <<>>
     ELSE ordered \o SelectSeq(names, LAMBDA b : b \notin Range(ordered))

\* sort_branches_as_stack with the names never encountered put first
sort_branches_as_stack_UnknownFirst(branches, out) ==
  LET names == Dedupe(branches, {})
      ordered == Emit(CommitBranches(NonBlankLines(out)), names, {})
  IN IF names = <<>> THEN <<>>
     ELSE SelectSeq(names, LAMBDA b : b \notin Range(ordered)) \o ordered

\* branches: the names of the BranchInfo list; out: the lines jj log printed
sort_branches_as_stack(branches, out) ==
  LET names == Dedupe(branches, {})
      ordered == Emit(CommitBranches(NonBlankLines(out)), names, {})
  IN IF names = <<>> THEN <<>>
     ELSE ordered \o SelectSeq(names, LAMBDA b : b \notin Range(ordered))

\* the line the template of line 109 prints for a commit
LogLine(bnames, commit) ==
  Join([i \in 1..Len(bnames) |-> <<bnames[i]>>], <<",">>) \o <<" ", commit>>

----------------------------------------------------------------------------
(* Code host, review-request directory and default branch *)

\* a review request of the code host; its number is its position in host
PullRequest(number, head, base, body) ==
  [number |-> number, head |-> head, base |-> base, body |-> body]

\* gh pr list --state open prints the open requests newest first
GhPrList(h) == [i \in 1..Len(h) |-> h[Len(h) + 1 - i]]

\* gh_list_open_prs_by_head keyed by the base of the request
gh_list_open_prs_by_head_KeyedByBase(data) ==
  [b \in {data[i].base : i \in 1..Len(data)} |->
     data[CHOOSE i \in 1..Len(data) :
            data[i].base = b /\ \A j \in (i + 1)..Len(data) : data[j].base # b]]

\* lines 153-160: result[head] = PullRequest(...), a later entry replacing an
\* earlier one with the same head
gh_list_open_prs_by_head(data) ==
  [b \in {data[i].head : i \in 1..Len(data)} |->
     data[CHOOSE i \in 1..Len(data) :
            data[i].head = b /\ \A j \in (i + 1)..Len(data) : data[j].head # b]]

\* gh pr create: the host opens the request and numbers it
HostCreate(h, head, base, body) ==
  Append(h, PullRequest(Len(h) + 1, head, base, body))

\* gh pr edit of gh_update_pr: --base when base is truthy ("" stands for None
\* as well), --body when body is not None
HostUpdate(h, number, base, hasBody, body) ==
  [h EXCEPT ![number] =
     [@ EXCEPT !.base = IF base # "" THEN base ELSE @,
               !.body = IF hasBody THEN body ELSE @]]

\* ref.rsplit("/", 1)[-1]
LastPathPart(ref) ==
  LET sl == {i \in 1..Len(ref) : ref[i] = "/"}
  IN IF sl = {} THEN Concat(ref)
     ELSE Concat(SubSeq(ref, (CHOOSE i \in sl : \A j \in sl : j <= i) + 1, Len(ref)))

\* ghName: the name gh reports ("" when gh fails or names none);
\* gitOk, gitRef: the outcome of git symbolic-ref
get_default_branch(ghName, gitOk, gitRef) ==
  IF ghName # "" THEN ghName
  ELSE IF gitOk THEN LastPathPart(gitRef)
  ELSE "main"

----------------------------------------------------------------------------
(* Stack reconciler: sync.py sync_stack, run from cli.py stack_sync *)

MaxBranches == 2

BranchPool == {"feat-a", "feat-b", "main"}

\* a fixed order of the pool, for numbering the requests open at the start
PoolOrder == <<"feat-a", "feat-b", "main">>

\* what jj bookmark list -T name++"\n" may print on a line
TemplatedLines == {<<n>> : n \in BranchPool} \cup {<<" ">>}

\* what jj bookmark list may print on a line
PlainLines ==
  {<<n, ":", " ", "c0ffee">> : n \in BranchPool}
     \cup {<<" ", " ", "@", "origin", ":", " ", "c0ffee">>}

StaleBody ==
  <<"Fixes", NL, StartMarker(DefaultMarkerKey), NL, "stale", NL,
    EndMarker(DefaultMarkerKey), NL, "Thanks">>

InitBases == {"main", "feat-a"}

InitBodies == {<<>>, StaleBody}

\* for every branch of the pool: no open request (<<>>) or one (<<base, body>>)
InitOpen ==
  [BranchPool -> {<<>>} \cup {<<b, t>> : b \in InitBases, t \in InitBodies}]

RECURSIVE HostOf(_, _, _)
\* the host holding the requests of open, numbered in pool order
HostOf(open, i, h) ==
  IF i > Len(PoolOrder) THEN h
  ELSE HostOf(open, i + 1,
              IF open[PoolOrder[i]] = <<>> THEN h
              ELSE HostCreate(h, PoolOrder[i], open[PoolOrder[i]][1],
                              open[PoolOrder[i]][2]))

ReturnCodes == {1, 2}

\* cli.py 60-65: the exit status for a failed command (rc) and for any other
\* exception (rc = 0)
ExitStatus(rc) == IF rc # 0 THEN rc ELSE 1

NewRun(id, dry, dbase, key) ==
  [id |-> id, pc |-> "push", dry_run |-> dry, default_base |-> dbase, marker_key |-> key,
   branches |-> <<>>, ordered |-> <<>>, base_default |-> "",
   head_to_pr |-> <<>>, pr_numbers |-> <<>>, sections |-> <<>>, idx |-> 0,
   exit |-> -1]

Call(r, op, ok) ==
  [run |-> r, op |-> op, ok |-> ok, number |-> 0, head |-> "", base |-> "",
   hasBody |-> FALSE, body |-> <<>>]

\* Raise with the error reported and the exit status left at 0
Raise_ExitZero(rn, rc) == [rn EXCEPT !.pc = "error", !.exit = 0]

\* the exception leaves sync_stack and stack_sync exits
Raise(rn, rc) == [rn EXCEPT !.pc = "error", !.exit = ExitStatus(rc)]

Return(rn) == [rn EXCEPT !.pc = "done", !.exit = 0]

Init ==
  /\ \E open \in InitOpen : host = HostOf(open, 1, <<>>)
  /\ calls = <<>>
  /\ \E dry \in BOOLEAN, dbase \in {"", "develop"} :
       run = NewRun(1, dry, dbase, DefaultMarkerKey)
  /\ fn = NoFn

\* Push with check=False: a failed push is not noticed
Push_Unchecked ==
  /\ run.pc = "push"
  /\ \E ok \in BOOLEAN :
       /\ calls' = Append(calls, Call(run.id, "push", ok))
       /\ run' = [run EXCEPT !.pc = "list_branches"]
  /\ UNCHANGED <<host, fn>>

\* lines 229-233: jj git push, check=True
Push ==
  /\ run.pc = "push"
  /\ \/ /\ calls' = Append(calls, Call(run.id, "push", TRUE))
        /\ run' = [run EXCEPT !.pc = "list_branches"]
     \/ \E rc \in ReturnCodes :
          /\ calls' = Append(calls, Call(run.id, "push", FALSE))
          /\ run' = Raise(run, rc)
  /\ UNCHANGED <<host, fn>>

\* lines 65-78: the templated listing; a failure or an empty result falls
\* through to the plain listing
ListTemplated ==
  /\ run.pc = "list_branches"
  /\ \/ \E lines \in SeqsUpTo(TemplatedLines, MaxBranches) :
          /\ calls' = Append(calls, Call(run.id, "bookmark_list_templated", TRUE))
          /\ LET names == SanitizedNames(lines)
             IN run' = IF names # <<>>
                       THEN [run EXCEPT !.pc = "sort", !.branches = names]
                       ELSE [run EXCEPT !.pc = "list_plain"]
     \/ /\ calls' = Append(calls, Call(run.id, "bookmark_list_templated", FALSE))
        /\ run' = [run EXCEPT !.pc = "list_plain"]
  /\ UNCHANGED <<host, fn>>

\* ListPlain with an empty listing reported as a failure
ListPlain_EmptyFails ==
  /\ run.pc = "list_plain"
  /\ \/ \E lines \in SeqsUpTo(PlainLines, MaxBranches) :
          /\ calls' = Append(calls, Call(run.id, "bookmark_list_plain", TRUE))
          /\ LET names == PlainNames(lines)
             IN run' = IF names # <<>>
                       THEN [run EXCEPT !.pc = "sort", !.branches = names]
                       ELSE Raise(run, 1)
     \/ \E rc \in ReturnCodes :
          /\ calls' = Append(calls, Call(run.id, "bookmark_list_plain", FALSE))
          /\ run' = Raise(run, rc)
  /\ UNCHANGED <<host, fn>>

\* lines 80-90 and 236-237: the plain listing; no branch ends the run
ListPlain ==
  /\ run.pc = "list_plain"
  /\ \/ \E lines \in SeqsUpTo(PlainLines, MaxBranches) :
          /\ calls' = Append(calls, Call(run.id, "bookmark_list_plain", TRUE))
          /\ LET names == PlainNames(lines)
             IN run' = IF names # <<>>
                       THEN [run EXCEPT !.pc = "sort", !.branches = names]
                       ELSE Return(run)
     \/ \E rc \in ReturnCodes :
          /\ calls' = Append(calls, Call(run.id, "bookmark_list_plain", FALSE))
          /\ run' = Raise(run, rc)
  /\ UNCHANGED <<host, fn>>

\* the sequences without repetition of elements of S
Arrangements(S) ==
  {q \in SeqsUpTo(S, Cardinality(S)) : \A i, j \in 1..Len(q) : i # j => q[i] # q[j]}

\* what jj log may print for the revset of the names: one line for each
\* bookmark it resolves, in the order of some commit graph
LogOutputs(names) ==
  {[i \in 1..Len(q) |-> LogLine(<<q[i]>>, "c0ffee")] : q \in Arrangements(Range(names))}

\* line 238: sort_branches_as_stack and its jj log; branches is not read
\* after this line
Sort ==
  /\ run.pc = "sort"
  /\ \/ \E out \in LogOutputs(run.branches) :
          /\ calls' = Append(calls, Call(run.id, "log", TRUE))
          /\ run' = [run EXCEPT !.pc = "default", !.branches = <<>>,
                                !.ordered = sort_branches_as_stack(run.branches, out)]
     \/ \E rc \in ReturnCodes :
          /\ calls' = Append(calls, Call(run.id, "log", FALSE))
          /\ run' = Raise(run, rc)
  /\ UNCHANGED <<host, fn>>

\* line 240: default_base or get_default_branch(repo_path); lines 28-41, the
\* query to gh, which fails or names the default branch
Default ==
  /\ run.pc = "default"
  /\ \/ /\ run.default_base # ""
        /\ calls' = calls
        /\ run' = [run EXCEPT !.pc = "list_prs", !.base_default = run.default_base]
     \/ /\ run.default_base = ""
        /\ \E ghName \in {"", "main"} :
             /\ calls' = Append(calls, Call(run.id, "repo_view", ghName # ""))
             /\ run' = IF ghName # ""
                       THEN [run EXCEPT
                               !.pc = "list_prs",
                               !.base_default = get_default_branch(ghName, FALSE, <<>>)]
                       ELSE [run EXCEPT !.pc = "default_git"]
  /\ UNCHANGED <<host, fn>>

\* lines 42-47: gh gave no name, git symbolic-ref is asked
DefaultGit ==
  /\ run.pc = "default_git"
  /\ \E gitOk \in BOOLEAN :
       /\ calls' = Append(calls, Call(run.id, "symbolic_ref", gitOk))
       /\ run' = [run EXCEPT
                    !.pc = "list_prs",
                    !.base_default =
                       get_default_branch("", gitOk,
                                          <<"refs", "/", "remotes", "/", "origin",
                                            "/", "main">>)]
  /\ UNCHANGED <<host, fn>>

\* line 242: gh pr list; a failed command or unparseable JSON (rc = 0) raises
ListPrs ==
  /\ run.pc = "list_prs"
  /\ \/ /\ calls' = Append(calls, Call(run.id, "pr_list", TRUE))
        /\ run' = [run EXCEPT !.pc = "reconcile", !.idx = 0,
                              !.head_to_pr = gh_list_open_prs_by_head(GhPrList(host))]
     \/ \E rc \in ReturnCodes \cup {0} :
          /\ calls' = Append(calls, Call(run.id, "pr_list", FALSE))
          /\ run' = Raise(run, rc)
  /\ UNCHANGED <<host, fn>>

\* ComputedBase with every position based on the default branch
ComputedBase_AlwaysDefault(ordered, base_default, idx) == base_default

\* line 247 (idx is 0-based, ordered is 1-based)
ComputedBase(ordered, base_default, idx) ==
  IF idx = 0 THEN base_default ELSE ordered[idx]

\* line 248: head_to_pr.get(branch_name) is not None
HasPr(head_to_pr, branch_name) == branch_name \in DOMAIN head_to_pr

\* NeedsBaseUpdate without the dry-run guard
NeedsBaseUpdate_IgnoresDryRun(pr, base, dry_run) == pr.base # base

\* line 269
NeedsBaseUpdate(pr, base, dry_run) == pr.base # base /\ ~dry_run

\* line 252: the missing request is created unless dry_run
CreatesMissing(dry_run) == ~dry_run

\* lines 274-285: the body update is sent unless dry_run
SendsBody(dry_run) == ~dry_run

\* Placeholder with nothing recorded for the missing request
Placeholder_Skipped(pr_numbers_in_order) == pr_numbers_in_order

\* lines 252-253 and 260: pr_num = 0 is recorded for the missing request of a
\* dry run
Placeholder(pr_numbers_in_order) == Append(pr_numbers_in_order, 0)

\* the end of an iteration of the first loop
NextReconcile(rn) ==
  IF rn.idx + 1 = Len(rn.ordered)
  THEN [rn EXCEPT !.pc = "bodies", !.idx = 0]
  ELSE [rn EXCEPT !.idx = rn.idx + 1]

\* the end of an iteration of the second loop
NextBody(rn) ==
  IF rn.idx + 1 = Len(rn.ordered) THEN Return(rn) ELSE [rn EXCEPT !.idx = rn.idx + 1]

\* lines 246-272: one iteration of the first loop
Reconcile ==
  /\ run.pc = "reconcile"
  /\ LET branch_name == run.ordered[run.idx + 1]
         base == ComputedBase(run.ordered, run.base_default, run.idx)
     IN IF ~HasPr(run.head_to_pr, branch_name)
        THEN IF ~CreatesMissing(run.dry_run)
             THEN \* lines 252-253 and 260; line 261 adds nothing to head_to_pr
                  /\ run' = NextReconcile([run EXCEPT !.pr_numbers = Placeholder(@)])
                  /\ UNCHANGED <<host, calls>>
             ELSE LET c == [Call(run.id, "create", TRUE) EXCEPT
                              !.head = branch_name, !.base = base, !.hasBody = TRUE]
                      pr_num == Len(host) + 1
                  IN \/ \* lines 256-265: created, and the number read
                        /\ host' = HostCreate(host, branch_name, base, <<>>)
                        /\ calls' = Append(calls, [c EXCEPT !.number = pr_num])
                        /\ run' = NextReconcile(
                                    [run EXCEPT
                                       !.pr_numbers = Append(@, pr_num),
                                       !.head_to_pr =
                                          (branch_name :>
                                             PullRequest(pr_num, branch_name, base, <<>>))
                                          @@ @])
                     \/ \* lines 180-182: created, the output ends in no number
                        /\ host' = HostCreate(host, branch_name, base, <<>>)
                        /\ calls' = Append(calls, [c EXCEPT !.ok = FALSE, !.number = pr_num])
                        /\ run' = Raise(run, 0)
                     \/ \* gh pr create fails
                        \E rc \in ReturnCodes :
                          /\ host' = host
                          /\ calls' = Append(calls, [c EXCEPT !.ok = FALSE])
                          /\ run' = Raise(run, rc)
        ELSE LET pr == run.head_to_pr[branch_name]
                 numbered == [run EXCEPT !.pr_numbers = Append(@, pr.number)]
                 c == [Call(run.id, "update", TRUE) EXCEPT
                         !.number = pr.number, !.head = branch_name, !.base = base]
             IN IF NeedsBaseUpdate(pr, base, run.dry_run)
                THEN \/ \* line 271
                        /\ host' = HostUpdate(host, pr.number, base, FALSE, <<>>)
                        /\ calls' = Append(calls, c)
                        /\ run' = NextReconcile(numbered)
                     \/ \E rc \in ReturnCodes :
                          /\ host' = host
                          /\ calls' = Append(calls, [c EXCEPT !.ok = FALSE])
                          /\ run' = Raise(numbered, rc)
                ELSE /\ run' = NextReconcile(numbered)
                     /\ UNCHANGED <<host, calls>>
  /\ fn' = fn

\* lines 274-285: one iteration of the second loop
RewriteBody ==
  /\ run.pc = "bodies"
  /\ LET branch_name == run.ordered[run.idx + 1]
     IN IF ~HasPr(run.head_to_pr, branch_name)
        THEN \* lines 277-278
             /\ run' = NextBody(run)
             /\ UNCHANGED <<host, calls>>
        ELSE LET pr == run.head_to_pr[branch_name]
                 section == render_stack_section(run.marker_key, run.pr_numbers, run.idx)
                 new_body == upsert_marker_section(pr.body, run.marker_key, section)
                 c == [Call(run.id, "update", TRUE) EXCEPT
                         !.number = pr.number, !.head = branch_name,
                         !.hasBody = TRUE, !.body = new_body]
                 \* lines 281 and 283 print the section and the merged body
                 printed == [run EXCEPT
                               !.sections =
                                  Append(@, [head |-> branch_name, section |-> section,
                                             new_body |-> new_body])]
             IN IF SendsBody(run.dry_run)
                THEN \/ /\ host' = HostUpdate(host, pr.number, "", TRUE, new_body)
                        /\ calls' = Append(calls, c)
                        /\ run' = NextBody(printed)
                     \/ \E rc \in ReturnCodes :
                          /\ host' = host
                          /\ calls' = Append(calls, [c EXCEPT !.ok = FALSE])
                          /\ run' = Raise(printed, rc)
                ELSE /\ run' = NextBody(printed)
                     /\ UNCHANGED <<host, calls>>
  /\ fn' = fn

Next ==
  \/ Push \/ ListTemplated \/ ListPlain \/ Sort \/ Default \/ DefaultGit
  \/ ListPrs \/ Reconcile \/ RewriteBody

Spec == Init /\ [][Next]_vars

----------------------------------------------------------------------------
(* A second run after a successful one *)

\* a body in which an end marker stands before the start marker
EndFirstBody ==
  <<EndMarker(DefaultMarkerKey), NL, StartMarker(DefaultMarkerKey)>>

RerunBodies == {StaleBody, EndFirstBody}

\* for every branch of the pool but main: no open request or one based on main
RerunOpen ==
  {open \in [BranchPool -> {<<>>} \cup {<<"main", t>> : t \in RerunBodies}] :
     open["main"] = <<>>}

RerunInit ==
  /\ \E open \in RerunOpen : host = HostOf(open, 1, <<>>)
  /\ calls = <<>>
  /\ \E dbase \in {"", "develop"} : run = NewRun(1, FALSE, dbase, DefaultMarkerKey)
  /\ fn = NoFn

\* sync_stack has returned and is called again with the same arguments; fn
\* keeps what the first run left: the host, its order, its default base and
\* the number of its calls
Rerun ==
  /\ run.id = 1 /\ run.pc = "done" /\ run.ordered # <<>>
  /\ fn' = [stage |-> "first", host |-> host, ordered |-> run.ordered,
            base_default |-> run.base_default, ncalls |-> Len(calls)]
  /\ run' = NewRun(2, run.dry_run, run.default_base, run.marker_key)
  /\ UNCHANGED <<host, calls>>

RerunNext == Next \/ Rerun

SpecRerun == RerunInit /\ [][RerunNext]_vars

----------------------------------------------------------------------------
(* Two overlapping runs *)

\* fn holds the run that is not at its turn
HasOther == "id" \in DOMAIN fn

\* the calls of lines 229-240 of run r, for the default branch asked from gh
ReadingCalls(r) ==
  <<Call(r, "push", TRUE), Call(r, "bookmark_list_templated", TRUE),
    Call(r, "log", TRUE), Call(r, "repo_view", TRUE)>>

\* a run that is through lines 229-240 and about to list the open requests
ListingRun(id, ordered) ==
  [NewRun(id, FALSE, "", DefaultMarkerKey) EXCEPT
     !.pc = "list_prs", !.ordered = ordered, !.base_default = "main"]

\* two runs of sync_stack over the same branches have both been through
\* lines 229-240, which read the repository and change nothing, with the same
\* results; each is about to list the open requests
OverlapInit ==
  /\ \E open \in RerunOpen : host = HostOf(open, 1, <<>>)
  /\ calls = ReadingCalls(1) \o ReadingCalls(2)
  /\ \E ordered \in Arrangements(BranchPool) :
       /\ Len(ordered) \in 1..MaxBranches
       /\ run = ListingRun(1, ordered)
       /\ fn = ListingRun(2, ordered)

\* the next external call is made by the other run
Switch ==
  /\ HasOther
  /\ fn.pc \notin {"done", "error"}
  /\ run' = fn
  /\ fn' = run
  /\ UNCHANGED <<host, calls>>

OverlapNext == ListPrs \/ Reconcile \/ RewriteBody \/ Switch

SpecOverlap == OverlapInit /\ [][OverlapNext]_vars

----------------------------------------------------------------------------
(* The orderer on a commit graph *)

MaxCommits == 3

Commits == 1..MaxCommits

\* parent[c] is the parent of commit c, 0 for a commit on the trunk
Graphs == {p \in [Commits -> 0..MaxCommits] : \A c \in Commits : p[c] < c}

RECURSIVE Ancestors(_, _)
\* the strict ancestors of commit c
Ancestors(p, c) == IF p[c] = 0 THEN {} ELSE {p[c]} \cup Ancestors(p, p[c])

\* at[n] is the commit bookmark n points at, 0 when there is no such bookmark
Placements == [BranchPool -> 0..MaxCommits]

\* the bookmarks of commit c, as the template's bookmarks.join(",") lists them
BookmarksAt(at, c) == SelectSeq(PoolOrder, LAMBDA n : at[n] = c)

\* lines 108-115: jj log -r 'bookmarks("a") | bookmarks("b") ...' --no-graph
\* prints one line for each commit of the revset, with all bookmarks of the
\* commit.  jj log prints a revset newest first, a commit before its
\* ancestors; only --reversed, which line 114 does not pass, prints the older
\* commits first.
JjLogOutputs(p, at, names) ==
  LET selected == {at[n] : n \in Range(names)} \ {0}
  IN {[i \in 1..Len(q) |-> LogLine(BookmarksAt(at, q[i]), "c" \o ToString(q[i]))] :
        q \in {a \in Arrangements(selected) :
                 /\ Len(a) = Cardinality(selected)
                 /\ \A i, j \in 1..Len(a) : i < j => a[i] \notin Ancestors(p, a[j])}}

SortInit ==
  /\ host = <<>>
  /\ calls = <<>>
  /\ run = IdleRun
  /\ \E p \in Graphs, at \in Placements, bs \in SeqsUpTo(BranchPool, MaxBranches) :
       fn = [stage |-> "input", parent |-> p, at |-> at, branches |-> bs,
             out |-> <<>>, ordered |-> <<>>]

\* lines 106-107: no name, no query
SortNothing ==
  /\ fn.stage = "input"
  /\ fn.branches = <<>>
  /\ fn' = [fn EXCEPT !.stage = "sorted",
                      !.ordered = sort_branches_as_stack(fn.branches, <<>>)]
  /\ UNCHANGED <<host, calls, run>>

\* lines 113-115
JjLog ==
  /\ fn.stage = "input"
  /\ fn.branches # <<>>
  /\ \E out \in JjLogOutputs(fn.parent, fn.at, fn.branches) :
       fn' = [fn EXCEPT !.stage = "logged", !.out = out]
  /\ UNCHANGED <<host, calls, run>>

\* lines 116-135
SortLogged ==
  /\ fn.stage = "logged"
  /\ fn' = [fn EXCEPT !.stage = "sorted",
                      !.ordered = sort_branches_as_stack(fn.branches, fn.out)]
  /\ UNCHANGED <<host, calls, run>>

SortNext == SortNothing \/ JjLog \/ SortLogged

SpecSort == SortInit /\ [][SortNext]_vars

\* the 1-based position of name n in sequence q (0 when absent)
PositionOf(q, n) == Find(q, n)

\* C4: when the commit of branch A is a strict ancestor of the commit of
\* branch B, A is before B in the order sort_branches_as_stack returns.
C4_AncestorsFirst ==
  fn.stage = "sorted" =>
    \A a, b \in Range(fn.branches) :
      (fn.at[a] # 0 /\ fn.at[b] # 0 /\ fn.at[a] \in Ancestors(fn.parent, fn.at[b]))
         => /\ PositionOf(fn.ordered, a) # 0
            /\ PositionOf(fn.ordered, a) < PositionOf(fn.ordered, b)

----------------------------------------------------------------------------
(* The orderer on any log output *)

MaxNames == 3

MaxLogLines == 3

\* lines jj log may be taken to print: a commit with one bookmark, a commit
\* with several bookmarks of which one is no bookmark of the pool, a commit
\* with no bookmark, a line with no space (the rsplit of line 119 fails), a
\* blank line
AnyLogLines ==
  {LogLine(<<n>>, "c1") : n \in BranchPool}
     \cup {LogLine(<<"feat-b", "ghost", "feat-a">>, "c2"), LogLine(<<>>, "c3"),
           <<"main">>, <<" ">>}

SortAnyInit ==
  /\ host = <<>>
  /\ calls = <<>>
  /\ run = IdleRun
  /\ \E bs \in SeqsUpTo(BranchPool, MaxNames) :
       fn = [stage |-> "input", branches |-> bs, out |-> <<>>, ordered |-> <<>>]

\* lines 113-115, with any output
JjLogAny ==
  /\ fn.stage = "input"
  /\ fn.branches # <<>>
  /\ \E out \in SeqsUpTo(AnyLogLines, MaxLogLines) :
       fn' = [fn EXCEPT !.stage = "logged", !.out = out]
  /\ UNCHANGED <<host, calls, run>>

SortAnyNext == SortNothing \/ JjLogAny \/ SortLogged

SpecSortAny == SortAnyInit /\ [][SortAnyNext]_vars

----------------------------------------------------------------------------
(* Claims about the merge *)

Merged == fn.stage \in {"once", "twice"}

\* some start marker of the key has an end marker of the key after it
HasPair(b, key) ==
  \E i \in 1..Len(b), j \in 1..Len(b) :
     i < j /\ b[i] = StartMarker(key) /\ b[j] = EndMarker(key)

\* a marker of the key is present and no start marker is followed by an end marker
Malformed(b, key) ==
  /\ Contains(b, StartMarker(key)) \/ Contains(b, EndMarker(key))
  /\ ~HasPair(b, key)

IsPrefix(p, s) == Len(p) <= Len(s) /\ SubSeq(s, 1, Len(p)) = p

IsSuffix(p, s) == Len(p) <= Len(s) /\ SubSeq(s, Len(s) - Len(p) + 1, Len(s)) = p

\* the index of the first end marker after the first start marker
PairEnd(b, key) ==
  CHOOSE j \in 1..Len(b) :
     /\ j > Find(b, StartMarker(key))
     /\ b[j] = EndMarker(key)
     /\ \A m \in (Find(b, StartMarker(key)) + 1)..(j - 1) : b[m] # EndMarker(key)

\* a, blank line, s, blank line, c; an empty side goes with its blank line
BlankJoined(a, s, c) ==
  (IF a # <<>> THEN a \o <<NL, NL>> ELSE <<>>) \o s
     \o (IF c # <<>> THEN <<NL, NL>> \o c ELSE <<>>)

\* C3: upsert(upsert(body, key, section), key, section) = upsert(body, key, section)
\* for every body, key and rendered section.
C3_Idempotent == fn.stage = "twice" => fn.twice = fn.once

\* C8: the text before the start marker of the pair and the text after
\* its end marker are byte-identical in the result (it begins with the one and
\* ends with the other); with no marker pair the whole body is in the result.
C8_OutsideByteIdentical ==
  Merged =>
    IF HasPair(fn.body, fn.key)
    THEN /\ IsPrefix(SubSeq(fn.body, 1, Find(fn.body, StartMarker(fn.key)) - 1), fn.once)
         /\ IsSuffix(SubSeq(fn.body, PairEnd(fn.body, fn.key) + 1, Len(fn.body)), fn.once)
    ELSE IsSuffix(fn.body, fn.once)

\* C9: a body whose markers are malformed (one marker without the other, or
\* every end marker before every start marker) is merged as if it had no
\* section: the result is the new section, a blank line and the existing
\* content (here even allowing the whitespace at its two ends to be trimmed).
C9_MalformedIsAbsent ==
  (Merged /\ Malformed(fn.body, fn.key)) =>
     fn.once = fn.section \o <<NL, NL>> \o strip(fn.body)

\* C13: when the body holds the start marker and, after it, the end marker,
\* the merge returns the text before the start marker with its trailing blank
\* lines trimmed, one blank line, the new section, one blank line, and the
\* text after that end marker with its leading blank lines trimmed (an empty
\* side going with its blank line), so that what stood between the markers is
\* gone; and the body "Fixes #12\n<!--jj-stack-sync:start-->\nstale\n
\* <!--jj-stack-sync:end-->\nThanks" merged with the fresh section gives
\* "Fixes #12\n\n<!--jj-stack-sync:start-->\nfresh\n<!--jj-stack-sync:end-->
\* \n\nThanks".
C13_ReplacedInPlace ==
  /\ (Merged /\ HasPair(fn.body, fn.key)) =>
       fn.once =
         BlankJoined(
           rstrip(SubSeq(fn.body, 1, Find(fn.body, StartMarker(fn.key)) - 1)),
           fn.section,
           lstrip(SubSeq(fn.body, PairEnd(fn.body, fn.key) + 1, Len(fn.body))))
  /\ fn.stage = "given_once" =>
       fn.once = <<"Fixes #12", NL, NL>> \o UnspacedSection \o <<NL, NL, "Thanks">>

----------------------------------------------------------------------------
(* Claims about the renderer *)

RECURSIVE SplitLines(_, _)
\* s.split("\n"), with the line being read in cur
SplitLines(s, cur) ==
  IF s = <<>> THEN <<cur>>
  ELSE IF Head(s) = NL THEN <<cur>> \o SplitLines(Tail(s), <<>>)
  ELSE SplitLines(Tail(s), Append(cur, Head(s)))

RenderedLines == SplitLines(fn.section, <<>>)

\* the lines of the section that hold the glyph
GlyphLines == {i \in 1..Len(RenderedLines) : Contains(RenderedLines[i], Glyph)}

\* the line "- #number" of entry i, with the glyph when marked
EntryLine(i, marked) ==
  <<"-", " ">> \o (IF marked THEN <<Glyph, " ">> ELSE <<>>)
     \o <<"#", ToString(fn.nums[i])>>

\* C14 as stated: for any key, list of numbers and current index, the section
\* is the line <!--key:start-->, one line "- #number" for each entry in list
\* order, and the line <!--key:end-->; exactly one line carries the glyph, the
\* line of the current index.
C14_OneGlyphLine ==
  fn.stage = "rendered" =>
    /\ Len(RenderedLines) = Len(fn.nums) + 2
    /\ RenderedLines[1] = <<"<!--" \o fn.key \o ":start-->">>
    /\ RenderedLines[Len(RenderedLines)] = <<"<!--" \o fn.key \o ":end-->">>
    /\ \A i \in 1..Len(fn.nums) :
         RenderedLines[i + 1] \in {EntryLine(i, TRUE), EntryLine(i, FALSE)}
    /\ GlyphLines = {fn.cur + 2}

\* C14 amended: the section is the line <!-- key:start -->, one line for each
\* entry in list order, and the line <!-- key:end -->; the line of an entry is
\* "- #number", for the entry at the current index "- U+1F449 #number"; the
\* line at the current index is the only one with the glyph when the index is
\* a position of the list, no line has it otherwise; for an empty list there
\* is one empty line between the marker lines.
C14_WellFormed ==
  fn.stage = "rendered" =>
    IF fn.nums = <<>>
    THEN RenderedLines = <<<<StartMarker(fn.key)>>, <<>>, <<EndMarker(fn.key)>>>>
    ELSE /\ Len(RenderedLines) = Len(fn.nums) + 2
         /\ RenderedLines[1] = <<StartMarker(fn.key)>>
         /\ RenderedLines[Len(RenderedLines)] = <<EndMarker(fn.key)>>
         /\ \A i \in 1..Len(fn.nums) :
              RenderedLines[i + 1] = EntryLine(i, i - 1 = fn.cur)
         /\ GlyphLines = IF fn.cur \in 0..(Len(fn.nums) - 1)
                         THEN {fn.cur + 2} ELSE {}

\* C14 witness: a list of two numbers was rendered with the second one
\* current.
C14_Witness ==
  /\ fn.stage = "rendered"
  /\ fn.nums = <<7, 12>> /\ fn.cur = 1
  /\ fn.section = <<StartMarker(fn.key), NL, "-", " ", "#", "7", NL,
                    "-", " ", Glyph, " ", "#", "12", NL, EndMarker(fn.key)>>

----------------------------------------------------------------------------
(* Claims about the reconciler *)

CallIdx == 1..Len(calls)

\* the create calls that opened a request on the host
Created == {k \in CallIdx : calls[k].op = "create" /\ calls[k].number # 0}

\* the requests open before the run are the first ones of the host
InitialCount == Len(host) - Cardinality(Created)

InitialHeads == {host[n].head : n \in 1..InitialCount}

\* the run went through both loops and returned
Succeeded == run.pc = "done" /\ run.ordered # <<>>

\* the base the chain gives position i (1-based)
ChainBase(i) == IF i = 1 THEN run.base_default ELSE run.ordered[i - 1]

NumbersOf(h) == {n \in 1..Len(host) : host[n].head = h}

BaseUpdatesOf(n) ==
  {k \in CallIdx : calls[k].op = "update" /\ calls[k].number = n /\ calls[k].base # ""}

BodyUpdatesOf(n) ==
  {k \in CallIdx : calls[k].op = "update" /\ calls[k].number = n /\ calls[k].hasBody}

CreatesOf(h) == {k \in CallIdx : calls[k].op = "create" /\ calls[k].head = h}

Mutating == {k \in CallIdx : calls[k].op \in {"create", "update"}}

\* C1: after a successful run that is not a dry run, the request of the first
\* branch has the default base and the request of every later branch has the
\* branch before it as base; a missing request was created with that base, an
\* existing one with another base got one base update to it, and an existing
\* one with that base got no base update.
C1_BaseChain ==
  (Succeeded /\ ~run.dry_run) =>
    \A i \in 1..Len(run.ordered) :
      LET h == run.ordered[i]
          b == ChainBase(i)
      IN /\ NumbersOf(h) # {}
         /\ \A n \in NumbersOf(h) : host[n].base = b
         /\ IF h \notin InitialHeads
            THEN /\ Cardinality(CreatesOf(h)) = 1
                 /\ \A k \in CreatesOf(h) : calls[k].ok /\ calls[k].base = b
                 /\ \A n \in NumbersOf(h) : BaseUpdatesOf(n) = {}
            ELSE /\ CreatesOf(h) = {}
                 /\ LET pr == run.head_to_pr[h]
                    IN IF pr.base # b
                       THEN /\ Cardinality(BaseUpdatesOf(pr.number)) = 1
                            /\ \A k \in BaseUpdatesOf(pr.number) :
                                 calls[k].ok /\ calls[k].base = b /\ ~calls[k].hasBody
                       ELSE BaseUpdatesOf(pr.number) = {}

\* C1 witness: a successful run over two branches created one request and
\* moved the base of the other.
C1_Witness ==
  /\ Succeeded /\ ~run.dry_run /\ Len(run.ordered) = 2
  /\ \E k \in CallIdx : calls[k].op = "create" /\ calls[k].ok
  /\ \E k \in CallIdx : calls[k].op = "update" /\ calls[k].ok /\ calls[k].base # ""
  /\ \E i \in 1..2 : run.ordered[i] \in InitialHeads
                     /\ run.head_to_pr[run.ordered[i]].base # ChainBase(i)

\* C2: in a run, Create is called at most once for a branch, and only for a
\* branch that has no open request when the run lists them; no branch has two
\* open requests.
C2_AtMostOneRequest ==
  /\ \A j, k \in CallIdx :
       (calls[j].op = "create" /\ calls[k].op = "create" /\ calls[j].head = calls[k].head)
          => j = k
  /\ \A k \in CallIdx : calls[k].op = "create" => calls[k].head \notin InitialHeads
  /\ \A m, n \in 1..Len(host) : host[m].head = host[n].head => m = n

\* C2 witness: a run created the request of one branch and found the request
\* of another one open.
C2_Witness ==
  /\ Succeeded /\ Len(run.ordered) = 2
  /\ \E i, j \in 1..2 :
       /\ CreatesOf(run.ordered[i]) # {}
       /\ run.ordered[j] \in InitialHeads
       /\ CreatesOf(run.ordered[j]) = {}

\* C5: a dry run sends the code host no Create and no Update.
C5_DryRunMutatesNothing == run.dry_run => Mutating = {}

\* C5 witness: a dry run ended after meeting a branch with no request and a
\* request whose base is not the computed one.
C5_Witness ==
  /\ Succeeded /\ run.dry_run
  /\ \E i \in 1..Len(run.ordered) : run.pr_numbers[i] = 0
  /\ \E i \in 1..Len(run.ordered) :
       /\ run.ordered[i] \in DOMAIN run.head_to_pr
       /\ run.head_to_pr[run.ordered[i]].base # ChainBase(i)

\* C6: the push is the first external call of a run, and when it fails it is
\* the only one: the run is in error and has sent the code host nothing.
C6_PushFirstAndFatal ==
  /\ calls # <<>> => calls[1].op = "push"
  /\ run.pc # "push" => calls # <<>>
  /\ (calls # <<>> /\ ~calls[1].ok) => (Len(calls) = 1 /\ run.pc = "error")

\* C6 witness: the push failed.
C6_Witness == calls # <<>> /\ ~calls[1].ok /\ run.pc = "error" /\ run.exit > 0

\* C7: a failed list, create or update call is the last call of its run (no
\* further call, no retry), the run is then in error with a non-zero exit
\* status, and what the calls before it changed on the code host stays.
C7_FailFast ==
  /\ \A k \in CallIdx :
       (calls[k].op \in {"pr_list", "create", "update"} /\ ~calls[k].ok)
          => (k = Len(calls) /\ run.pc = "error")
  /\ run.pc = "error" => run.exit > 0
  /\ \A k \in CallIdx :
       calls[k].ok =>
          /\ calls[k].op = "create" =>
               /\ calls[k].number \in 1..Len(host)
               /\ host[calls[k].number].head = calls[k].head
               /\ host[calls[k].number].base = calls[k].base
          /\ (calls[k].op = "update" /\ calls[k].base # "") =>
               host[calls[k].number].base = calls[k].base
          /\ (calls[k].op = "update" /\ calls[k].hasBody) =>
               host[calls[k].number].body = calls[k].body

\* C7 witness: a call failed after a request was created and a base moved.
C7_Witness ==
  /\ run.pc = "error"
  /\ calls # <<>> /\ ~calls[Len(calls)].ok /\ calls[Len(calls)].op = "update"
  /\ \E k \in CallIdx : calls[k].op = "create" /\ calls[k].ok
  /\ \E k \in CallIdx : calls[k].op = "update" /\ calls[k].ok /\ calls[k].base # ""

IsInfix(p, s) == \E i \in 0..(Len(s) - Len(p)) : SubSeq(s, i + 1, i + Len(p)) = p

\* the number of the request of position i
NumberAt(i) == CHOOSE n \in 1..Len(host) : host[n].head = run.ordered[i]

RECURSIVE SectionLines(_, _)
\* the lines of the section of position cur, from position j on
SectionLines(j, cur) ==
  IF j > Len(run.ordered) THEN <<>>
  ELSE <<NL, "-", " ">> \o (IF j = cur THEN <<Glyph, " ">> ELSE <<>>)
         \o <<"#", ToString(NumberAt(j))>> \o SectionLines(j + 1, cur)

\* the section of position cur: a line for every position, cur marked
SectionOf(cur) ==
  <<StartMarker(run.marker_key)>> \o SectionLines(1, cur)
     \o <<NL, EndMarker(run.marker_key)>>

\* C10: in a successful run that is not a dry run, the request of every
\* position gets exactly one body update, sent after every Create and every
\* base update of the run, and the body holds the section that lists the
\* request numbers of all positions in stack order with this position marked.
C10_BodiesRewritten ==
  (Succeeded /\ ~run.dry_run) =>
    \A i \in 1..Len(run.ordered) :
      /\ NumbersOf(run.ordered[i]) # {}
      /\ Cardinality(BodyUpdatesOf(NumberAt(i))) = 1
      /\ \A k \in BodyUpdatesOf(NumberAt(i)) :
           /\ calls[k].ok
           /\ \A m \in CallIdx :
                (calls[m].op = "create" \/ (calls[m].op = "update" /\ calls[m].base # ""))
                   => m < k
           /\ IsInfix(SectionOf(i), calls[k].body)

\* C10 witness: a successful run whose first branch had a request with a
\* stale section and whose second branch got its request in this run.
C10_Witness ==
  /\ Succeeded /\ ~run.dry_run /\ Len(run.ordered) = 2
  /\ run.ordered[1] \in InitialHeads
  /\ run.head_to_pr[run.ordered[1]].body = StaleBody
  /\ CreatesOf(run.ordered[2]) # {}

\* the operations of the calls, in call order
CallOps == [k \in CallIdx |-> calls[k].op]

\* list_branches has returned (its last command succeeded) with no branch
ListedNothing ==
  /\ calls # <<>>
  /\ calls[Len(calls)].op = "bookmark_list_plain" /\ calls[Len(calls)].ok
  /\ run.branches = <<>>

\* C15: when list_branches returns no branch the run ends successfully, and
\* its calls are the push and the two listings of list_branches: no jj log, no
\* default-branch query, no listing of the open requests, no Create and no
\* Update.
C15_EmptyStackNoOp ==
  /\ ListedNothing =>
       /\ run.pc = "done" /\ run.exit = 0
       /\ CallOps = <<"push", "bookmark_list_templated", "bookmark_list_plain">>
  /\ (run.pc = "done" /\ run.ordered = <<>>) => ListedNothing

\* C15 witness: a run over no branch ended with requests open on the host.
C15_Witness ==
  /\ ListedNothing /\ run.pc = "done" /\ run.exit = 0
  /\ Len(calls) = 3 /\ Len(host) = 2 /\ ~run.dry_run

\* C18: whatever branches list_branches reports and whatever the default base
\* is, the base of every Create call and of every base Update call differs
\* from the head of the request the call is about.
C18_NeverBasedOnOwnHead ==
  \A k \in CallIdx :
    (calls[k].op = "create" \/ (calls[k].op = "update" /\ calls[k].base # ""))
       => calls[k].base # calls[k].head

\* the first loop has been through every branch
ChainDone == run.pc = "bodies" \/ Succeeded

\* the sections the second loop has computed so far
SectionIdx == 1..Len(run.sections)

\* C19: after the first loop the list of request numbers has one entry for
\* each ordered branch, entry i being the number of the request of branch i;
\* in a dry run a branch with no request has 0 at its position, is not added
\* to head_to_pr and gets no section rendered or merged, while every section
\* that is computed, for a branch with a request, has one line for each
\* ordered branch.
C19_PlaceholdersAligned ==
  ChainDone =>
    /\ Len(run.pr_numbers) = Len(run.ordered)
    /\ \A i \in 1..Len(run.ordered) :
         IF run.ordered[i] \in {host[n].head : n \in 1..Len(host)}
         THEN /\ run.pr_numbers[i] \in 1..Len(host)
              /\ host[run.pr_numbers[i]].head = run.ordered[i]
              /\ HasPr(run.head_to_pr, run.ordered[i])
         ELSE /\ run.dry_run
              /\ run.pr_numbers[i] = 0
              /\ ~HasPr(run.head_to_pr, run.ordered[i])
              /\ \A k \in SectionIdx : run.sections[k].head # run.ordered[i]
    /\ \A k \in SectionIdx :
         /\ HasPr(run.head_to_pr, run.sections[k].head)
         /\ Len(SplitLines(run.sections[k].section, <<>>)) = Len(run.ordered) + 2
         /\ \A i \in 1..Len(run.ordered) :
              SplitLines(run.sections[k].section, <<>>)[i + 1]
                 \in {<<"-", " ", "#", ToString(run.pr_numbers[i])>>,
                      <<"-", " ", Glyph, " ", "#", ToString(run.pr_numbers[i])>>}

\* C19 witness: a dry run over two branches ended; the first branch has no
\* request and the section of the second lists it as #0.
C19_Witness ==
  /\ Succeeded /\ run.dry_run
  /\ Len(run.ordered) = 2 /\ run.pr_numbers[1] = 0 /\ run.pr_numbers[2] # 0
  /\ Len(run.sections) = 1
  /\ run.sections[1].head = run.ordered[2]
  /\ IsInfix(<<"-", " ", "#", "0", NL, "-", " ", Glyph, " ", "#">>,
             run.sections[1].section)

----------------------------------------------------------------------------
(* Claims about the second run *)

\* the calls of the second run
SecondCalls == {k \in CallIdx : calls[k].run = 2}

\* C16: a second run after a successful run that was no dry run, with the
\* same branches, order and default base, sends no Create and no base Update,
\* every body Update it sends writes the body the request already has, and
\* the host stays as the first run left it.
C16_RerunIsFixedPoint ==
  (run.id = 2 /\ run.ordered = fn.ordered /\ run.base_default = fn.base_default) =>
    /\ \A k \in SecondCalls :
         /\ calls[k].op # "create"
         /\ calls[k].op = "update" => calls[k].base = ""
         /\ (calls[k].op = "update" /\ calls[k].hasBody) =>
              calls[k].body = fn.host[calls[k].number].body
    /\ host = fn.host

----------------------------------------------------------------------------
(* Claims about overlapping runs *)

\* both runs went through both loops and returned
BothSucceeded == HasOther /\ Succeeded /\ fn.pc = "done"

\* the number of positions of body b that hold marker t
MarkerCount(b, t) == Cardinality({i \in 1..Len(b) : b[i] = t})

\* body b holds one section of the key: one start marker, one end marker
\* after it
OneSection(b, key) ==
  /\ MarkerCount(b, StartMarker(key)) = 1
  /\ MarkerCount(b, EndMarker(key)) = 1
  /\ Find(b, StartMarker(key)) < Find(b, EndMarker(key))

\* C17: when two runs over the same stack that are no dry runs have both
\* returned, however their calls were interleaved, no branch has two open
\* requests, the request of the first branch has the default base and the
\* request of every later branch the branch before it, and the body of every
\* request of the stack holds exactly one stack section.
C17_OverlapSafe ==
  BothSucceeded =>
    /\ \A m, n \in 1..Len(host) : host[m].head = host[n].head => m = n
    /\ \A i \in 1..Len(run.ordered) :
         \A n \in NumbersOf(run.ordered[i]) :
           /\ host[n].base = ChainBase(i)
           /\ OneSection(host[n].body, run.marker_key)

----------------------------------------------------------------------------
(* Claims about the orderer on any log output *)

\* the number of positions of sequence q that hold n
Occurrences(q, n) == Cardinality({i \in 1..Len(q) : q[i] = n})

\* C11: the result of sort_branches_as_stack holds every distinct name of the
\* input exactly once and no name that is not in the input, whatever the
\* input list (with or without repeated names) and whatever jj log printed.
C11_Permutation ==
  fn.stage = "sorted" =>
    /\ \A n \in Range(fn.branches) : Occurrences(fn.ordered, n) = 1
    /\ Range(fn.ordered) \subseteq Range(fn.branches)

\* C11 witness: an input with a repeated name has been sorted on a log that
\* has a commit with several bookmarks, one of them not in the input, and a
\* commit with none.
C11_Witness ==
  /\ fn.stage = "sorted"
  /\ fn.branches = <<"feat-a", "main", "feat-a">>
  /\ fn.out = <<LogLine(<<"main">>, "c1"), LogLine(<<>>, "c3"),
                LogLine(<<"feat-b", "ghost", "feat-a">>, "c2")>>
  /\ fn.ordered = <<"main", "feat-a">>

\* the names the well-formed non-blank lines of the log carry
Annotated == Range(CommitBranches(NonBlankLines(fn.out)))

\* the distinct input names no commit of the log carries, in input order
NeverEncountered ==
  SelectSeq(Dedupe(fn.branches, {}), LAMBDA n : n \notin Annotated)

\* C12: the input names that no commit of the log carries (lines that cannot
\* be split are skipped) are in the result exactly once, after all the names
\* that were encountered and in their input order, and the sort returns.
C12_UnknownLast ==
  fn.stage = "sorted" =>
    /\ IsSuffix(NeverEncountered, fn.ordered)
    /\ \A i \in 1..(Len(fn.ordered) - Len(NeverEncountered)) :
         fn.ordered[i] \in Annotated
    /\ \A i \in 1..Len(NeverEncountered) :
         Occurrences(fn.ordered, NeverEncountered[i]) = 1

\* C12 witness: two names were never encountered, one of them only on a line
\* that cannot be split, and the name encountered was last in the input.
C12_Witness ==
  /\ fn.stage = "sorted"
  /\ fn.branches = <<"main", "feat-b", "feat-a">>
  /\ fn.out = <<LogLine(<<"feat-a">>, "c1"), <<"main">>>>
  /\ fn.ordered = <<"feat-a", "main", "feat-b">>

====
